---- MODULE Spec2Model ----
(***************************************************************************)
(* Presence-triggered audio/video capture service.                         *)
(*                                                                         *)
(* Two programs of the repository are modelled side by side, selected by   *)
(* the variable `variant`:                                                 *)
(*   "av"  : av_monitor.py      (MonitorSystem, dual-process capture with  *)
(*                               merge on stop, status LEDs, a signal      *)
(*                               handler that stops and calls sys.exit)    *)
(*   "cap" : capture_monitor.py (CaptureMonitor, one capture process, a    *)
(*                               signal handler that only clears a flag)   *)
(*                                                                         *)
(* The main thread is a program counter `pc` walking through run(), the    *)
(* poll loop and, for "av", the statements of start_recording() and        *)
(* stop_recording() between which a signal handler can run.  Child         *)
(* processes are the environment: a handle is "None", or refers to a       *)
(* process that is "running" or "exited".                                  *)
(*                                                                         *)
(* Time is a clock `now` of whole delay units.  Only differences of        *)
(* timestamps are ever used by the code, so when the clock would pass      *)
(* MaxTime the stored timestamps are shifted down instead.                 *)
(***************************************************************************)
EXTENDS Integers, Sequences, FiniteSets, TLC

VARIABLES
    variant,          \* which program runs
    video_resolution, \* Config.video_resolution: "WxH" or "bad" (no 'x' to split on)
    temperature_threshold,    \* IRSensor.threshold / Config.IR_PRESENCE_TEMP_MIN
    presence_pixels_required, \* IRSensor.min_pixels / Config.IR_PRESENCE_PIXEL_COUNT
    config_file,      \* the override file Config.load_config() finds at config_path
    config,           \* the attributes load_config() has set on the Config object
    host,             \* what main() of capture_monitor.py finds when it starts: is the
                      \* capture directory writable, can rpicam-vid be run
    interrupted,      \* history: an interrupt sent to the process group of the service
                      \* ended a capture process
    bench,            \* what the diagnostic script finds: importable modules, working
                      \* sensor, camera, microphone and combined capture
    results,          \* test_components.py main(): the results dict
    ran,              \* history: the tests of test_components.py called, in order
    pixels,           \* what the last read of sensor.pixels gave: a frame or an error
    pc,               \* position of the main thread
    exc,              \* exception that ended the poll loop: "none", "SystemExit", or the
                      \* function an Exception was raised out of
    state,            \* RecordingState
    absence_timer,    \* absence_timer / cooldown_start_time (None or a timestamp)
    running,          \* self.running
    handlers,         \* signal handlers installed
    now,              \* time.time()
    presence,         \* the last reading of detect_presence()
    recorder,         \* AVRecorder fields
    stray,            \* live capture processes no recorder handle refers to
    leds,             \* StatusLEDs line levels
    names,            \* last file name generate_filename() produced
    tmp,              \* do the temporary files of the last session exist?
    finals,           \* names of the session under which a merged output file exists
    exit_status,      \* status the process has exited with (None while it runs)
    nCleanup,         \* history: calls of StatusLEDs.cleanup()
    stop_outcome,     \* history: path the last stop_recording() took
    sig,              \* history: a shutdown signal was delivered to an installed handler
    nStart,           \* history: start_recording() calls of the poll loop in this cycle
    nStop,            \* history: stop_recording() calls of the poll loop in this cycle
    cancelled,        \* history: a cooldown was cancelled in this cycle
    lossTime,         \* history: time of the Recording -> WaitingToStop tick of this cooldown
    start_outcome,    \* history: path the last start_recording() took
    start_ret,        \* history: what the last start_recording() returned
    stop_ret          \* history: what the last stop_recording() returned

vars == <<variant, video_resolution, pc, exc, state, absence_timer, running, handlers,
          now, presence, recorder, stray, leds, names, sig, nStart, nStop, cancelled,
          lossTime,
          start_outcome, start_ret, stop_ret,
          temperature_threshold, presence_pixels_required, config_file, config, host,
          interrupted, bench, results, ran, pixels,
          tmp, finals, exit_status, nCleanup, stop_outcome>>

\* the diagnostic script
cliVars   == <<bench, results, ran>>
\* what the service never changes once it runs
cfgVars   == <<variant, video_resolution, temperature_threshold,
               presence_pixels_required, config_file, config, host, interrupted,
               cliVars>>
fsVars    == <<tmp, finals, stop_outcome>>
exitVars  == <<exit_status, nCleanup>>
coordVars == <<state, absence_timer, lossTime>>
callVars  == <<nStart, nStop, cancelled>>
retVars   == <<start_outcome, start_ret, stop_ret>>
recVars   == <<recorder, stray, names>>

----------------------------------------------------------------------------
(* Bounds of the model *)

MaxTime == 4
MaxStep == 2
MaxFiles == 3
MaxCalls == 2
\* Config.stop_delay_seconds / Config.STOP_DELAY_SECONDS, in model time units
stop_delay_seconds == 2

None == -1

Min(a, b) == IF a < b THEN a ELSE b
Max(a, b) == IF a > b THEN a ELSE b

\* a returned value: its kind and, for a bool or a file name, which one
RetNone == <<"none", 0>>
RetRaise == <<"raise", 0>>
RetFalse == <<"bool", 0>>
RetTrue == <<"bool", 1>>
RetFile(n) == <<"file", n>>

IDLE == "idle"
RECORDING == "recording"
WAITING_TO_STOP == "waiting_to_stop"

----------------------------------------------------------------------------
(* StatusLEDs *)

set_idle == [orange |-> TRUE, red |-> FALSE]
set_recording == [orange |-> FALSE, red |-> TRUE]
\* mutant: the waiting rendering differs from the recording one (red in its off phase)
set_waiting_blink == [orange |-> FALSE, red |-> FALSE]
\* set_waiting(): orange off, red kept on
set_waiting == [orange |-> FALSE, red |-> TRUE]
cleanup == [orange |-> FALSE, red |-> FALSE]

\* capture_monitor.py drives no indicator: its lines stay as they are
Led(l) == IF variant = "av" THEN l ELSE leds

----------------------------------------------------------------------------
(* AVRecorder *)

NoSession == [video_process |-> "None", audio_process |-> "None",
              current_file |-> None, temp_video_file |-> None,
              temp_audio_file |-> None]

is_recording(r) == r.video_process = "running" \/ r.audio_process = "running"

\* generate_filename(): a name different from the one generated before it
generate_filename == (names + 1) % MaxFiles

\* mutant: the process is signalled but never awaited or killed
Reap_NoWait(p) == p

\* mutant: after the timeout the process is left alone
Kill_GivesUp(p) == p

\* kill(); wait() with no timeout: the process has exited
Kill(p) == "exited"

\* send_signal(SIGINT) / terminate(), wait(timeout): a running process that obeys the
\* signal exits in time, one that does not is killed
Stopped(p, obeys) ==
    IF p # "running" THEN p ELSE IF obeys THEN "exited" ELSE Kill(p)

\* send_signal / terminate, wait(timeout), kill, wait: the process has exited,
\* whether it obeys the signal or not
Reap(p) ==
    IF \E obeys \in BOOLEAN : Stopped(p, obeys) = "running"
    THEN "running"
    ELSE IF p = "None" THEN "None" ELSE "exited"

\* a handle that is dropped while its process still runs leaves a stray process
Dropped(p) == IF p = "running" THEN 1 ELSE 0

_cleanup_recording(r) == NoSession

\* what the two unlink() calls after a merge removed: unlink of the video file
\* raised, unlink of the audio file raised, neither raised
Unlinks == {"none", "video", "both"}

\* what stop_recording() meets outside the recorder: whether each temporary file
\* exists once the capture processes are down, whether the merge tool succeeds, what
\* the unlink() calls remove, whether stat() of the merged file succeeds.  A step
\* that is not reached has one value: no merge without both files, no unlink and no
\* stat without a merge.
StopEnvs ==
    {e \in [video_exists : BOOLEAN, audio_exists : BOOLEAN, merge_success : BOOLEAN,
            unlinked : Unlinks, stat_ok : BOOLEAN] :
        /\ e.merge_success => (e.video_exists /\ e.audio_exists)
        /\ ~e.merge_success => (e.unlinked = "none" /\ ~e.stat_ok)}

\* the environments that make a difference to a stop of recorder r: one, if
\* is_recording() is false and stop_recording() is not called
StopEnvsIfRecording(r) ==
    IF r.video_process = "running" \/ r.audio_process = "running"
    THEN StopEnvs
    ELSE {e \in StopEnvs : ~e.video_exists /\ ~e.audio_exists}

\* the environment of a stop that finds no temporary file
NoEnv == [video_exists |-> FALSE, audio_exists |-> FALSE, merge_success |-> FALSE,
          unlinked |-> "none", stat_ok |-> FALSE]

\* the path stop_recording() took, and the environment it took it in
Outcome(path, ok) == [path |-> path, env |-> ok]

NoTmp == [video |-> FALSE, audio |-> FALSE]

\* the temporary files a capture process was launched for and the environment left
FilesFound(r, ok) == [video |-> ok.video_exists /\ r.video_process # "None",
                      audio |-> ok.audio_exists /\ r.audio_process # "None"]

\* mutant: the temporary files are never deleted
Unlink_Nothing(unlinked) == [video |-> TRUE, audio |-> TRUE]

\* the temporary files left by temp_video_file.unlink(); temp_audio_file.unlink()
Unlink(unlinked) == [video |-> unlinked = "none", audio |-> unlinked # "both"]

\* mutant: the merge is attempted whether or not the temporary files exist
Finalize_NoCheck(r, ok) ==
    IF ~ok.merge_success
    THEN [ret |-> RetFalse, tmp |-> FilesFound(r, ok), finals |-> finals,
          outcome |-> Outcome("merge_failed", ok)]
    ELSE [ret |-> IF ok.stat_ok THEN RetTrue ELSE RetFalse,
          tmp |-> Unlink(ok.unlinked), finals |-> finals \cup {r.current_file},
          outcome |-> Outcome(IF ok.stat_ok THEN "merged" ELSE "raised", ok)]

\* av_monitor stop_recording() once the capture processes are down: the checks for
\* the temporary files, _merge_av_files(), the unlinks and the stat
Finalize(r, ok) ==
    LET found == FilesFound(r, ok)
    IN IF ~(found.video /\ found.audio)
       THEN [ret |-> RetFalse, tmp |-> found, finals |-> finals,
             outcome |-> Outcome("missing", ok)]
       ELSE IF ~ok.merge_success
       THEN [ret |-> RetFalse, tmp |-> found, finals |-> finals,
             outcome |-> Outcome("merge_failed", ok)]
       ELSE [ret |-> IF ok.stat_ok THEN RetTrue ELSE RetFalse,
             tmp |-> Unlink(ok.unlinked), finals |-> finals \cup {r.current_file},
             outcome |-> Outcome(IF ok.stat_ok THEN "merged" ELSE "raised", ok)]

\* mutant: no test for a session
stop_recording_av_unguarded(r, ok) ==
    [rec |-> _cleanup_recording(r),
     lostV |-> Dropped(Reap(r.video_process)),
     lostA |-> Dropped(Reap(r.audio_process))] @@ Finalize(r, ok)

\* av_monitor stop_recording(), run to completion
stop_recording_av(r, ok) ==
    IF r.video_process = "None" /\ r.audio_process = "None"
    THEN [rec |-> r, ret |-> RetFalse, lostV |-> 0, lostA |-> 0,
          tmp |-> tmp, finals |-> finals, outcome |-> Outcome("noop", NoEnv)]
    ELSE [rec |-> _cleanup_recording(r),
          lostV |-> Dropped(Reap(r.video_process)),
          lostA |-> Dropped(Reap(r.audio_process))] @@ Finalize(r, ok)

\* capture_monitor stop_recording()
stop_recording_cap(r) ==
    IF ~is_recording(r)
    THEN [rec |-> r, ret |-> RetNone, lostV |-> 0, lostA |-> 0,
          tmp |-> tmp, finals |-> finals, outcome |-> Outcome("noop", NoEnv)]
    ELSE LET v == Reap(r.video_process)
         IN [rec |-> [r EXCEPT !.video_process = "None", !.current_file = None],
             ret |-> RetNone, lostV |-> Dropped(v), lostA |-> 0,
             tmp |-> tmp, finals |-> finals, outcome |-> Outcome("stopped", NoEnv)]

stop_recording(r, ok) ==
    IF variant = "av" THEN stop_recording_av(r, ok) ELSE stop_recording_cap(r)

AddStray(v, a) == [video |-> Min(stray.video + v, MaxCalls),
                   audio |-> Min(stray.audio + a, MaxCalls)]

----------------------------------------------------------------------------
(* Config *)

\* the keys of the override file the model follows, with their built-in defaults
\* (stop_delay_seconds in seconds, temperature_threshold in degrees Celsius)
Defaults == [stop_delay_seconds |-> 60, temperature_threshold |-> 28,
             presence_pixels_required |-> 3, video_framerate |-> 30]

Keys == DOMAIN Defaults

\* values an override file gives a key; None: the file does not hold the key
OverrideValues == {5, 30}

NoKeys == [k \in Keys |-> None]

\* what an override file says about capture_dir: nothing, a directory that can be
\* created, or a value mkdir cannot use (a path under a file, a number)
CaptureDirs == {"unset", "usable", "unusable"}

\* no file at config_path; a file open() cannot read; a file json.load() cannot
\* parse; a JSON object; a JSON array of [key, value] pairs followed by an element
\* that is no pair (dict, capture_dir: the pairs before that element)
AbsentFile == [kind |-> "absent", dict |-> NoKeys, capture_dir |-> "unset"]
UnreadableFile == [kind |-> "unreadable", dict |-> NoKeys, capture_dir |-> "unset"]
UnparsableFile == [kind |-> "unparsable", dict |-> NoKeys, capture_dir |-> "unset"]
ConfigFiles ==
    {AbsentFile, UnreadableFile, UnparsableFile}
    \cup {[kind |-> k, dict |-> d, capture_dir |-> c] :
             k \in {"object", "array"},
             d \in [Keys -> OverrideValues \cup {None}],
             c \in CaptureDirs}

\* mutant: the object of the file replaces the defaults
load_config_replaces(file) ==
    IF file.kind = "object" THEN file.dict ELSE Defaults

\* load_config(): defaults.update(user_config) if the file exists and parses; the
\* attributes set are the updated defaults.  update() of an array applies its pairs
\* one by one until the element that raises, and the except clause undoes nothing.
load_config(file) ==
    IF file.kind \in {"object", "array"}
    THEN [k \in Keys |-> IF file.dict[k] # None THEN file.dict[k] ELSE Defaults[k]]
    ELSE Defaults

\* self.capture_dir after the setattr loop: the file's value if update() applied one,
\* else the default under the home directory
capture_dir(file) ==
    IF file.kind \in {"object", "array"} /\ file.capture_dir # "unset"
    THEN file.capture_dir
    ELSE "home"

\* whether Path(self.capture_dir).mkdir(parents=True, exist_ok=True) can raise:
\* always for a value it cannot use, and when the file system refuses otherwise
mkdir_raises(dir) == IF dir = "unusable" THEN {TRUE} ELSE BOOLEAN

\* the host as the pre-flight checks of capture_monitor.py find it; av_monitor.py
\* has no such checks
GoodHost == [capture_dir_writable |-> TRUE, rpicam_vid |-> TRUE]
Hosts ==
    IF variant = "cap"
    THEN [capture_dir_writable : BOOLEAN, rpicam_vid : BOOLEAN]
    ELSE {GoodHost}

----------------------------------------------------------------------------
(* test_components.py *)

\* the modules test_imports() tries to import
Modules == {"board", "busio", "adafruit_amg88xx"}

\* the tests in the order main() calls them, by their key in results
Tests == <<"dependencies", "ir_sensor", "camera", "audio", "av_recording">>

\* what the script can find on the device
Benches == [imports : SUBSET Modules, sensor : BOOLEAN, camera : BOOLEAN,
            audio : BOOLEAN, av : BOOLEAN]
NoBench == [imports |-> Modules, sensor |-> TRUE, camera |-> TRUE, audio |-> TRUE,
            av |-> TRUE]

\* the script is not run
InitNoCli == bench = NoBench /\ results = <<>> /\ ran = <<>>

\* test_imports(): passed == len(tests)
test_imports(b) == Cardinality(b.imports) = Cardinality(Modules)

\* test_ir_sensor(): the imports, the bus, one read of the grid; any exception gives
\* False
test_ir_sensor(b) == b.imports = Modules /\ b.sensor

\* test_camera(), test_audio(), test_av_recording(): True iff the tool ran and its
\* return code is 0 (and, for the last, the output file exists)
test_camera(b) == b.camera
test_audio(b) == b.audio
test_av_recording(b) == b.av

\* passed = sum(results.values())
passed(res) == Cardinality({t \in DOMAIN res : res[t]})

\* mutant: one passed test is enough
ExitCode_AnyPassed(res) == IF passed(res) > 0 THEN 0 ELSE 1

\* return 0 if passed == total else 1
ExitCode(res) == IF passed(res) = Cardinality(DOMAIN res) THEN 0 ELSE 1

----------------------------------------------------------------------------
(* IRSensor *)

\* size of the thermal grid in the model (8 x 8 on the device)
Rows == 2
RowLen == 2

\* a read of sensor.pixels that raised
SensorError == [ok |-> FALSE, rows |-> <<>>]
\* no frame read yet
NoFrame == [ok |-> TRUE, rows |-> <<>>]
\* a frame with every cell at temperature t
UniformFrame(t) == [ok |-> TRUE, rows |-> [i \in 1..Rows |-> [j \in 1..RowLen |-> t]]]

\* mutant: a cell exactly at the threshold does not count
Hot_Strict(temp, threshold) == temp > threshold

\* if temp >= self.threshold
Hot(temp, threshold) == temp >= threshold

\* the inner loop: for temp in row
RECURSIVE CountRow(_, _)
CountRow(row, threshold) ==
    IF row = <<>> THEN 0
    ELSE (IF Hot(Head(row), threshold) THEN 1 ELSE 0) + CountRow(Tail(row), threshold)

\* the outer loop: for row in pixels
RECURSIVE hot_pixels(_, _)
hot_pixels(rows, threshold) ==
    IF rows = <<>> THEN 0
    ELSE CountRow(Head(rows), threshold) + hot_pixels(Tail(rows), threshold)

\* mutant: a read error is taken for presence
detect_presence_error_is_presence(frame, threshold, min_pixels) ==
    IF ~frame.ok THEN TRUE
    ELSE hot_pixels(frame.rows, threshold) >= min_pixels

\* detect_presence(): a read error is caught and gives False
detect_presence(frame, threshold, min_pixels) ==
    IF ~frame.ok THEN FALSE
    ELSE hot_pixels(frame.rows, threshold) >= min_pixels

\* what a poll tick of the service may read: an error, a frame with every cell just
\* below the threshold, a frame with every cell at the threshold
TickFrames == {SensorError, UniformFrame(temperature_threshold - 1),
               UniformFrame(temperature_threshold)}

----------------------------------------------------------------------------
(* Start of main(): nothing is constructed yet *)

InitCommon ==
    /\ variant \in {"av", "cap"}
    /\ video_resolution \in (IF variant = "av" THEN {"WxH", "bad"} ELSE {"WxH"})
    /\ exc = "none"
    /\ state = IDLE
    /\ absence_timer = None
    /\ running = FALSE
    /\ handlers = FALSE
    /\ now = 0
    /\ presence = FALSE
    /\ recorder = NoSession
    /\ stray = [video |-> 0, audio |-> 0]
    /\ leds = cleanup
    /\ names = 0
    /\ sig = FALSE
    /\ nStart = 0
    /\ nStop = 0
    /\ cancelled = FALSE
    /\ lossTime = None
    /\ start_outcome = "none"
    /\ start_ret = RetNone
    /\ stop_ret = RetNone
    /\ tmp = [video |-> FALSE, audio |-> FALSE]
    /\ finals = {}
    /\ exit_status = None
    /\ nCleanup = 0
    /\ stop_outcome = Outcome("none", NoEnv)
    /\ interrupted = FALSE

\* the configuration and the sensor parameters the service runs with
InitService ==
    /\ InitNoCli
    /\ host \in Hosts
    /\ config_file = AbsentFile
    /\ config = load_config(config_file)
    /\ temperature_threshold = config.temperature_threshold
    /\ presence_pixels_required = config.presence_pixels_required
    /\ pixels = NoFrame

Init == pc = "main" /\ InitCommon /\ InitService

\* mutant: only the capture directory is checked
preflight_dir_only(h) == h.capture_dir_writable

\* the pre-flight checks pass: mkdir, touch and unlink in the capture directory do
\* not raise, and subprocess.run(["rpicam-vid", "--version"]) does not raise
preflight(h) == h.capture_dir_writable /\ h.rpicam_vid

\* main() of capture_monitor.py up to "Pre-flight checks complete": a failed check
\* is logged and main() returns 1
PreFlight ==
    /\ pc = "main"
    /\ variant = "cap"
    /\ IF preflight(host)
       THEN /\ pc' = "monitor"
            /\ UNCHANGED exit_status
       ELSE /\ pc' = "exit"
            /\ exit_status' = 1
    /\ UNCHANGED <<cfgVars, pixels, fsVars, nCleanup, exc, coordVars, running,
                   handlers, now, presence, recVars, leds, sig, callVars, retVars>>

\* mutant: a sensor that failed to initialise does not keep the service from running
OnInitFailure_Swallowed ==
    /\ exc' = "IRSensor"
    /\ exit_status' = exit_status
    /\ running' = (variant = "av")
    /\ handlers' = (variant = "cap")
    /\ pc' = "run"

\* IRSensor.initialize() re-raises; the constructor is left, main() logs the error and
\* exits with status 1
OnInitFailure ==
    /\ exc' = "IRSensor"
    /\ exit_status' = 1
    /\ pc' = "exit"
    /\ UNCHANGED <<running, handlers>>

\* MonitorSystem.__init__: StatusLEDs(), IRSensor(), AVRecorder(), state, timer,
\* running.  CaptureMonitor.__init__: IRSensor(), AVRecorder(), state, timer,
\* running, signal handlers.
Construct ==
    /\ pc = (IF variant = "cap" THEN "monitor" ELSE "main")
    /\ leds' = Led(set_idle)
    /\ \E sensor_ok \in BOOLEAN :
         IF sensor_ok
         THEN /\ running' = (variant = "av")
              /\ handlers' = (variant = "cap")
              /\ pc' = "run"
              /\ UNCHANGED <<exc, exit_status>>
         ELSE OnInitFailure
    /\ UNCHANGED <<cfgVars, pixels, fsVars, nCleanup, coordVars, now, presence,
                   recVars, sig, callVars, retVars>>

----------------------------------------------------------------------------
(* run(): entry, loop test, sleep *)

\* MonitorSystem.run registers the handlers; CaptureMonitor.run sets running
RunEntry ==
    /\ pc = "run"
    /\ handlers' = TRUE
    /\ running' = (IF variant = "cap" THEN TRUE ELSE running)
    /\ pc' = "loop"
    /\ UNCHANGED <<cfgVars, pixels, fsVars, exitVars,
                   exc, coordVars, now, presence, recVars, leds, sig,
                   callVars, retVars>>

\* while self.running
Loop ==
    /\ pc = "loop"
    /\ pc' = IF running THEN "detect" ELSE "finally"
    /\ UNCHANGED <<cfgVars, pixels, fsVars, exitVars,
                   exc, coordVars, running, handlers, now, presence,
                   recVars, leds, sig, callVars, retVars>>

Shift(t, k) == IF t = None THEN None ELSE Max(t - k, 0)

\* time.sleep(poll interval): d units of time pass
Sleep ==
    /\ pc = "sleep"
    /\ \E d \in 0..MaxStep :
        LET over == Max(now + d - MaxTime, 0)
        IN /\ now' = Min(now + d, MaxTime)
           /\ absence_timer' = Shift(absence_timer, over)
           /\ lossTime' = Shift(lossTime, over)
    /\ pc' = "loop"
    /\ UNCHANGED <<cfgVars, pixels, fsVars, exitVars,
                   exc, state, running, handlers, presence, recVars,
                   leds, sig, callVars, retVars>>

\* the poll loop calls start_recording() / stop_recording()
CountStart == /\ nStart' = IF state = IDLE THEN 1 ELSE Min(nStart + 1, MaxCalls)
              /\ nStop' = IF state = IDLE THEN 0 ELSE nStop
              /\ cancelled' = IF state = IDLE THEN FALSE ELSE cancelled
CountStop == /\ nStop' = Min(nStop + 1, MaxCalls)
             /\ UNCHANGED <<nStart, cancelled>>

\* mutant: the delay is taken one unit short
Elapsed_OffByOne(t) == now - t >= stop_delay_seconds - 1

\* mutant: the subtraction is reversed
Elapsed_Reversed(t) == t - now >= stop_delay_seconds

\* the cooldown has run out: elapsed >= stop_delay_seconds
Elapsed(t) == now - t >= stop_delay_seconds

----------------------------------------------------------------------------
(* MonitorSystem.run: one evaluation of the state machine *)

\* mutant: the countdown starts without a timestamp
PresenceLost_NoTimer ==
    /\ state' = WAITING_TO_STOP
    /\ leds' = set_waiting
    /\ absence_timer' = None

\* Recording, no presence: the countdown starts
PresenceLost ==
    /\ state' = WAITING_TO_STOP
    /\ leds' = set_waiting
    /\ absence_timer' = now

\* mutant: the cancelled countdown keeps its timestamp
PresenceReturned_KeepsTimer ==
    /\ state' = RECORDING
    /\ leds' = set_recording
    /\ absence_timer' = absence_timer

\* WaitingToStop, presence: the countdown is cancelled
PresenceReturned ==
    /\ state' = RECORDING
    /\ leds' = set_recording
    /\ absence_timer' = None

DetectAV ==
    /\ pc = "detect"
    /\ variant = "av"
    /\ \E f \in TickFrames :
        LET p == detect_presence(f, temperature_threshold, presence_pixels_required)
        IN
        /\ pixels' = f
        /\ presence' = p
        /\ CASE state = IDLE /\ p ->
                  /\ pc' = "start_0"
                  /\ CountStart
                  /\ UNCHANGED <<coordVars, leds>>
             [] state = RECORDING /\ ~p ->
                  /\ PresenceLost
                  /\ lossTime' = now
                  /\ pc' = "sleep"
                  /\ UNCHANGED callVars
             [] state = WAITING_TO_STOP /\ p ->
                  /\ PresenceReturned
                  /\ lossTime' = None
                  /\ cancelled' = TRUE
                  /\ pc' = "sleep"
                  /\ UNCHANGED <<nStart, nStop>>
             [] state = WAITING_TO_STOP /\ ~p /\ absence_timer # None
                    /\ Elapsed(absence_timer) ->
                  /\ pc' = "stop_0"
                  /\ CountStop
                  /\ UNCHANGED <<coordVars, leds>>
             [] OTHER ->
                  /\ pc' = "sleep"
                  /\ UNCHANGED <<coordVars, leds, callVars>>
    /\ UNCHANGED <<cfgVars, fsVars, exitVars,
                   exc, running, handlers, now, recVars, sig, retVars>>

----------------------------------------------------------------------------
(* av_monitor AVRecorder.start_recording, statement by statement *)

\* what the poll loop does with the value start_recording() returned
StartReturned(ok) ==
    IF ok
    THEN /\ state' = RECORDING
         /\ leds' = set_recording
         /\ absence_timer' = None
         /\ lossTime' = lossTime
    ELSE UNCHANGED <<coordVars, leds>>

\* new paths are assigned: nothing exists at them, no stop has been made of the
\* session they belong to
NewSession ==
    /\ tmp' = NoTmp
    /\ finals' = {}
    /\ stop_outcome' = Outcome("none", NoEnv)

\* the already-recording test, generate_filename(), the temporary paths, the split
Start0 ==
    /\ pc = "start_0"
    /\ IF recorder.video_process # "None" \/ recorder.audio_process # "None"
       THEN /\ start_outcome' = "active"
            /\ start_ret' = RetFalse
            /\ pc' = "sleep"
            /\ UNCHANGED <<recorder, names, exc, fsVars>>
       ELSE \E mkdir_ok \in BOOLEAN :
              IF ~mkdir_ok
              THEN /\ start_outcome' = "prep_raise"
                   /\ start_ret' = RetRaise
                   /\ exc' = "start_recording"
                   /\ pc' = "finally"
                   /\ UNCHANGED <<recorder, names, fsVars>>
              ELSE /\ names' = generate_filename
                   /\ NewSession
                   /\ recorder' = [recorder EXCEPT !.current_file = names',
                                                   !.temp_video_file = names',
                                                   !.temp_audio_file = names']
                   /\ IF video_resolution = "bad"
                      THEN /\ start_outcome' = "prep_raise"
                           /\ start_ret' = RetRaise
                           /\ exc' = "start_recording"
                           /\ pc' = "finally"
                      ELSE /\ start_outcome' = "pending"
                           /\ start_ret' = RetNone
                           /\ exc' = exc
                           /\ pc' = "start_audio"
    /\ UNCHANGED <<cfgVars, pixels, exitVars,
                   coordVars, running, handlers, now, presence, stray,
                   leds, sig, callVars, stop_ret>>

\* subprocess.Popen(cmd): raises (tool missing) or leaves a child running whose
\* handle the caller has not stored yet
Popen(kind, next) ==
    /\ \E launched \in BOOLEAN :
         IF launched
         THEN /\ stray' = [stray EXCEPT ![kind] = Min(@ + 1, MaxCalls)]
              /\ pc' = next
         ELSE /\ stray' = stray
              /\ pc' = "cfs_audio"
    /\ UNCHANGED <<cfgVars, pixels, fsVars, exitVars,
                   exc, coordVars, running, handlers, now, presence,
                   recorder, names, leds, sig, callVars, retVars>>

\* self.<kind>_process = <the Popen object>
StoreHandle(kind, field, next) ==
    /\ recorder' = [recorder EXCEPT ![field] =
                        IF stray[kind] > 0 THEN "running" ELSE "exited"]
    /\ stray' = [stray EXCEPT ![kind] = Max(@ - 1, 0)]
    /\ pc' = next
    /\ UNCHANGED <<cfgVars, pixels, fsVars, exitVars,
                   exc, coordVars, running, handlers, now, presence,
                   names, leds, sig, callVars, retVars>>

StartAudio == pc = "start_audio" /\ Popen("audio", "start_audio_store")
StartAudioStore ==
    pc = "start_audio_store" /\ StoreHandle("audio", "audio_process", "start_video")
StartVideo == pc = "start_video" /\ Popen("video", "start_video_store")
StartVideoStore ==
    pc = "start_video_store" /\ StoreHandle("video", "video_process", "start_settle")

\* time.sleep(0.5), then poll() of the audio and of the video process
StartSettle ==
    /\ pc = "start_settle"
    /\ IF recorder.audio_process = "exited" \/ recorder.video_process = "exited"
       THEN /\ pc' = "cfs_audio"
            /\ UNCHANGED <<coordVars, leds, retVars>>
       ELSE /\ start_outcome' = "started"
            /\ start_ret' = RetTrue
            /\ stop_ret' = stop_ret
            /\ StartReturned(TRUE)
            /\ pc' = "sleep"
    /\ UNCHANGED <<cfgVars, pixels, fsVars, exitVars,
                   exc, running, handlers, now, presence, recVars, sig,
                   callVars>>

\* _cleanup_failed_start: kill and forget the audio process
CfsAudio ==
    /\ pc = "cfs_audio"
    /\ LET a == Reap(recorder.audio_process)
       IN /\ recorder' = [recorder EXCEPT !.audio_process = "None"]
          /\ stray' = AddStray(0, Dropped(a))
    /\ pc' = "cfs_video"
    /\ UNCHANGED <<cfgVars, pixels, fsVars, exitVars,
                   exc, coordVars, running, handlers, now, presence,
                   names, leds, sig, callVars, retVars>>

\* _cleanup_failed_start: kill and forget the video process, clear the paths;
\* start_recording() returns False
CfsVideo ==
    /\ pc = "cfs_video"
    /\ LET v == Reap(recorder.video_process)
       IN /\ recorder' = [recorder EXCEPT !.video_process = "None",
                                          !.current_file = None,
                                          !.temp_video_file = None,
                                          !.temp_audio_file = None]
          /\ stray' = AddStray(Dropped(v), 0)
    /\ start_outcome' = "launch_failed"
    /\ start_ret' = RetFalse
    /\ stop_ret' = stop_ret
    /\ StartReturned(FALSE)
    /\ pc' = "sleep"
    /\ UNCHANGED <<cfgVars, pixels, fsVars, exitVars,
                   exc, running, handlers, now, presence, names, sig,
                   callVars>>

----------------------------------------------------------------------------
(* av_monitor AVRecorder.stop_recording as the poll loop runs it *)

\* mutant: the absence timer survives the stop
StopReturned_KeepsTimer ==
    /\ state' = IDLE
    /\ leds' = set_idle
    /\ absence_timer' = absence_timer
    /\ lossTime' = None
    /\ pc' = "sleep"

\* what the poll loop does once stop_recording() has returned
StopReturned ==
    /\ state' = IDLE
    /\ leds' = set_idle
    /\ absence_timer' = None
    /\ lossTime' = None
    /\ pc' = "sleep"

\* the no-session test; SIGINT to the video process
Stop0 ==
    /\ pc = "stop_0"
    /\ IF recorder.video_process = "None" /\ recorder.audio_process = "None"
       THEN /\ stop_ret' = RetFalse
            /\ stop_outcome' = Outcome("noop", NoEnv)
            /\ StopReturned
       ELSE /\ pc' = "stop_video_wait"
            /\ UNCHANGED <<coordVars, leds, stop_ret, stop_outcome>>
    /\ UNCHANGED <<cfgVars, pixels, tmp, finals, exitVars,
                   exc, running, handlers, now, presence, recVars, sig,
                   callVars, start_outcome, start_ret>>

\* mutant: the audio process is terminated without waiting for the video process
StopVideoWait_NoWait ==
    /\ pc = "stop_video_wait"
    /\ pc' = "stop_audio_wait"
    /\ UNCHANGED <<cfgVars, pixels, fsVars, exitVars,
                   exc, coordVars, running, handlers, now, presence,
                   recVars, leds, sig, callVars, retVars>>

\* video_process.wait(timeout=10), kill on timeout; terminate() the audio process
StopVideoWait ==
    /\ pc = "stop_video_wait"
    /\ recorder' = [recorder EXCEPT !.video_process = Reap(@)]
    /\ pc' = "stop_audio_wait"
    /\ UNCHANGED <<cfgVars, pixels, fsVars, exitVars,
                   exc, coordVars, running, handlers, now, presence,
                   stray, names, leds, sig, callVars, retVars>>

\* audio_process.wait(timeout=5), kill on timeout
StopAudioWait ==
    /\ pc = "stop_audio_wait"
    /\ recorder' = [recorder EXCEPT !.audio_process = Reap(@)]
    /\ pc' = "stop_check"
    /\ UNCHANGED <<cfgVars, pixels, fsVars, exitVars,
                   exc, coordVars, running, handlers, now, presence,
                   stray, names, leds, sig, callVars, retVars>>

\* do the temporary files exist?
StopCheck ==
    /\ pc = "stop_check"
    /\ \E ok \in StopEnvs :
         LET f == Finalize(recorder, ok)
         IN IF f.outcome.path # "missing"
            THEN /\ tmp' = FilesFound(recorder, ok)
                 /\ pc' = "stop_merge"
                 /\ UNCHANGED <<coordVars, leds, recorder, stray, stop_ret,
                                finals, stop_outcome>>
            ELSE /\ recorder' = _cleanup_recording(recorder)
                 /\ stray' = AddStray(Dropped(recorder.video_process),
                                      Dropped(recorder.audio_process))
                 /\ stop_ret' = f.ret
                 /\ tmp' = f.tmp
                 /\ finals' = f.finals
                 /\ stop_outcome' = f.outcome
                 /\ StopReturned
    /\ UNCHANGED <<cfgVars, pixels, exitVars,
                   exc, running, handlers, now, presence, names, sig,
                   callVars, start_outcome, start_ret>>

\* _merge_av_files(), unlink of the temporary files, stat, _cleanup_recording
StopMerge ==
    /\ pc = "stop_merge"
    /\ \E ok \in StopEnvs :
         /\ ok.video_exists = tmp.video
         /\ ok.audio_exists = tmp.audio
         /\ LET f == Finalize(recorder, ok)
            IN /\ f.outcome.path # "missing"
               /\ stop_ret' = f.ret
               /\ tmp' = f.tmp
               /\ finals' = f.finals
               /\ stop_outcome' = f.outcome
    /\ recorder' = _cleanup_recording(recorder)
    /\ stray' = AddStray(Dropped(recorder.video_process),
                         Dropped(recorder.audio_process))
    /\ StopReturned
    /\ UNCHANGED <<cfgVars, pixels, exitVars,
                   exc, running, handlers, now, presence, names, sig,
                   callVars, start_outcome, start_ret>>

----------------------------------------------------------------------------
(* capture_monitor *)

Launches == {"raise", "exit", "run"}

\* the status of a child once its Popen call is over: no child ("raise"), a child
\* that has exited at once ("exit"), a running child ("run")
Child(launch) ==
    CASE launch = "raise" -> "None"
      [] launch = "exit" -> "exited"
      [] OTHER -> "running"

\* AVRecorder.start_recording; launch: what Popen does
start_recording_cap(r, mkdir_ok, launch) ==
    IF is_recording(r)
    THEN [rec |-> r, names |-> names, ret |-> RetFile(r.current_file),
          raised |-> FALSE, outcome |-> "active", lostV |-> 0]
    ELSE IF ~mkdir_ok
    THEN [rec |-> r, names |-> names, ret |-> RetRaise,
          raised |-> TRUE, outcome |-> "prep_raise", lostV |-> 0]
    ELSE IF launch = "raise"
    THEN [rec |-> r, names |-> generate_filename, ret |-> RetRaise,
          raised |-> TRUE, outcome |-> "launch_failed", lostV |-> 0]
    ELSE [rec |-> [r EXCEPT !.video_process = Child(launch),
                            !.current_file = generate_filename],
          names |-> generate_filename, ret |-> RetFile(generate_filename),
          raised |-> FALSE,
          outcome |-> IF launch = "exit" THEN "launch_failed" ELSE "started",
          lostV |-> Dropped(r.video_process)]

\* CaptureMonitor._update
UpdateCap ==
    /\ pc = "detect"
    /\ variant = "cap"
    /\ \E f \in TickFrames :
        LET p == detect_presence(f, temperature_threshold, presence_pixels_required)
        IN
        /\ pixels' = f
        /\ presence' = p
        /\ CASE state = IDLE /\ p ->
                  \E mkdir_ok \in BOOLEAN, launch \in Launches :
                    LET s == start_recording_cap(recorder, mkdir_ok, launch)
                    IN /\ CountStart
                       /\ recorder' = s.rec
                       /\ names' = s.names
                       /\ stray' = AddStray(s.lostV, 0)
                       /\ start_outcome' = s.outcome
                       /\ start_ret' = s.ret
                       /\ stop_ret' = stop_ret
                       /\ stop_outcome' = stop_outcome
                       /\ IF s.raised
                          THEN /\ exc' = "start_recording"
                               /\ pc' = "finally"
                               /\ UNCHANGED coordVars
                          ELSE /\ state' = RECORDING
                               /\ exc' = exc
                               /\ pc' = "sleep"
                               /\ UNCHANGED <<absence_timer, lossTime>>
             [] state = RECORDING /\ ~p ->
                  /\ absence_timer' = now
                  /\ lossTime' = now
                  /\ state' = WAITING_TO_STOP
                  /\ pc' = "sleep"
                  /\ UNCHANGED <<exc, recVars, callVars, retVars, stop_outcome>>
             [] state = WAITING_TO_STOP /\ p ->
                  /\ state' = RECORDING
                  /\ absence_timer' = None
                  /\ lossTime' = None
                  /\ cancelled' = TRUE
                  /\ pc' = "sleep"
                  /\ UNCHANGED <<exc, recVars, nStart, nStop, retVars, stop_outcome>>
             [] state = WAITING_TO_STOP /\ ~p /\ Elapsed(absence_timer) ->
                  LET s == stop_recording_cap(recorder)
                  IN /\ CountStop
                     /\ recorder' = s.rec
                     /\ stray' = AddStray(s.lostV, s.lostA)
                     /\ stop_ret' = s.ret
                     /\ stop_outcome' = s.outcome
                     /\ state' = IDLE
                     /\ absence_timer' = None
                     /\ lossTime' = None
                     /\ pc' = "sleep"
                     /\ UNCHANGED <<exc, names, start_outcome, start_ret>>
             [] OTHER ->
                  /\ pc' = "sleep"
                  /\ UNCHANGED <<exc, coordVars, recVars, callVars, retVars, stop_outcome>>
    /\ UNCHANGED <<cfgVars, tmp, finals, exitVars,
                   running, handlers, now, leds, sig>>

----------------------------------------------------------------------------
(* Shutdown *)

\* mutant: shutdown leaves the recording alone
StopSkipped(r, ok) ==
    [rec |-> r, ret |-> stop_ret, lostV |-> 0, lostA |-> 0,
     tmp |-> tmp, finals |-> finals, outcome |-> stop_outcome]

\* is_recording() guarding stop_recording(), as the handler and the cleanup do
StopIfRecording(r, ok) ==
    IF is_recording(r)
    THEN stop_recording(r, ok)
    ELSE [rec |-> r, ret |-> stop_ret, lostV |-> 0, lostA |-> 0,
          tmp |-> tmp, finals |-> finals, outcome |-> stop_outcome]

\* A shutdown signal reaches an installed handler.
\* capture_monitor: _signal_handler clears running.
\* av_monitor: handle_signal clears running, stops an active recording, turns the
\* LEDs off and raises SystemExit in the main thread, which leaves the poll loop for
\* its finally block unless the main thread is inside a try block of
\* _cleanup_failed_start, whose bare except swallows it.
Signal ==
    /\ handlers
    /\ pc \notin {"done", "exit", "api"}
    /\ sig' = TRUE
    /\ running' = FALSE
    /\ IF variant = "cap"
       THEN UNCHANGED <<pc, exc, recVars, leds, retVars, fsVars, exitVars>>
       ELSE \E ok \in StopEnvsIfRecording(recorder),
               in_try \in (IF pc \in {"cfs_audio", "cfs_video"} THEN BOOLEAN ELSE {FALSE}) :
              LET s == StopIfRecording(recorder, ok)
              IN /\ leds' = cleanup
                 /\ nCleanup' = Min(nCleanup + 1, MaxCalls)
                 /\ stray' = AddStray(s.lostV, s.lostA)
                 /\ stop_ret' = s.ret
                 /\ tmp' = s.tmp
                 /\ finals' = s.finals
                 /\ stop_outcome' = s.outcome
                 /\ names' = names
                 /\ CASE pc = "cfs_audio" /\ in_try
                           /\ recorder.audio_process # "None" ->
                           /\ recorder' = [s.rec EXCEPT !.audio_process = "None"]
                           /\ pc' = "cfs_video"
                           /\ UNCHANGED <<exc, start_outcome, start_ret, exit_status>>
                      [] pc = "cfs_video" /\ in_try
                           /\ recorder.video_process # "None" ->
                           /\ recorder' = [s.rec EXCEPT !.video_process = "None",
                                                        !.current_file = None,
                                                        !.temp_video_file = None,
                                                        !.temp_audio_file = None]
                           /\ start_outcome' = "launch_failed"
                           /\ start_ret' = RetFalse
                           /\ pc' = "sleep"
                           /\ exc' = exc
                           /\ exit_status' = exit_status
                      [] OTHER ->
                           /\ recorder' = s.rec
                           /\ exc' = "SystemExit"
                           /\ pc' = (IF pc = "finally" THEN "done" ELSE "finally")
                           /\ exit_status' = (IF pc = "finally" THEN 0 ELSE exit_status)
                           /\ UNCHANGED <<start_outcome, start_ret>>
    /\ UNCHANGED <<cfgVars, pixels, coordVars, handlers, now, presence, callVars>>

\* mutant: an error in the loop body ends the process at once
OnLoopError_Exits ==
    /\ exc' = "loop_body"
    /\ pc' = "done"

\* except Exception as e: the error is logged, and the finally block is next
OnLoopError ==
    /\ exc' = "loop_body"
    /\ pc' = "finally"

\* A statement of the loop body, after the evaluation of the tick, raises an
\* exception nothing in the body catches (the log call, time.sleep).
LoopError ==
    /\ pc = "sleep"
    /\ OnLoopError
    /\ UNCHANGED <<cfgVars, pixels, fsVars, exitVars, coordVars, running, handlers,
                   now, presence, recVars, leds, sig, callVars, retVars>>

\* the finally block of MonitorSystem.run / CaptureMonitor._cleanup
Finally ==
    /\ pc = "finally"
    /\ \E ok \in StopEnvsIfRecording(recorder) :
         LET s == StopIfRecording(recorder, ok)
         IN /\ recorder' = s.rec
            /\ stray' = AddStray(s.lostV, s.lostA)
            /\ stop_ret' = s.ret
            /\ tmp' = s.tmp
            /\ finals' = s.finals
            /\ stop_outcome' = s.outcome
    /\ leds' = Led(cleanup)
    /\ nCleanup' = (IF variant = "av" THEN Min(nCleanup + 1, MaxCalls) ELSE nCleanup)
    /\ exit_status' = 0
    /\ pc' = "done"
    /\ UNCHANGED <<cfgVars, pixels,
                   exc, coordVars, running, handlers, now, presence,
                   names, sig, callVars, start_outcome, start_ret>>

----------------------------------------------------------------------------
(* Environment: a capture process exits on its own *)

ChildExit ==
    /\ \/ /\ recorder.video_process = "running"
          /\ recorder' = [recorder EXCEPT !.video_process = "exited"]
          /\ stray' = stray
       \/ /\ recorder.audio_process = "running"
          /\ recorder' = [recorder EXCEPT !.audio_process = "exited"]
          /\ stray' = stray
       \/ /\ \E kind \in {"video", "audio"} :
               /\ stray[kind] > 0
               /\ stray' = [stray EXCEPT ![kind] = @ - 1]
          /\ recorder' = recorder
    /\ UNCHANGED <<cfgVars, pixels, fsVars, exitVars,
                   pc, exc, coordVars, running, handlers, now, presence,
                   names, leds, sig, callVars, retVars>>

\* what subprocess.Popen is given as preexec_fn for a capture process: av_monitor.py
\* passes lambda: signal.signal(signal.SIGINT, signal.SIG_IGN), capture_monitor.py
\* passes nothing
preexec_fn == IF variant = "av" THEN "SIG_IGN" ELSE "none"

\* a child started with SIGINT ignored is not ended by SIGINT
Shielded == preexec_fn = "SIG_IGN"

\* An interactive interrupt (Ctrl-C) is sent to the foreground process group, of
\* which the capture processes are members: it reaches them apart from the service
\* (for which see Signal), and ends those that do not ignore it.
Interrupt ==
    /\ ~Shielded
    /\ \/ is_recording(recorder)
       \/ stray.video > 0
       \/ stray.audio > 0
    /\ recorder' = [recorder EXCEPT
                       !.video_process = IF @ = "running" THEN "exited" ELSE @,
                       !.audio_process = IF @ = "running" THEN "exited" ELSE @]
    /\ stray' = [video |-> 0, audio |-> 0]
    /\ interrupted' = TRUE
    /\ UNCHANGED <<variant, video_resolution, temperature_threshold,
                   presence_pixels_required, config_file, config, host, cliVars,
                   pixels, fsVars, exitVars, pc, exc, coordVars, running, handlers,
                   now, presence, names, leds, sig, callVars, retVars>>

----------------------------------------------------------------------------

Next ==
    \/ PreFlight
    \/ Construct
    \/ RunEntry \/ Loop \/ Sleep
    \/ DetectAV
    \/ Start0 \/ StartAudio \/ StartAudioStore \/ StartVideo \/ StartVideoStore
    \/ StartSettle \/ CfsAudio \/ CfsVideo
    \/ Stop0 \/ StopVideoWait \/ StopAudioWait \/ StopCheck \/ StopMerge
    \/ UpdateCap
    \/ LoopError
    \/ Signal \/ Finally
    \/ ChildExit \/ Interrupt

Spec == Init /\ [][Next]_vars

----------------------------------------------------------------------------
(* The recorder called directly, in any order, as a test of the component does *)

\* av_monitor AVRecorder.start_recording past its already-recording test, run to
\* completion.  audio, video: Popen raises ("raise"), or the child has exited
\* ("exit") or still runs ("run") when it is polled after the settle sleep
start_session_av(r, mkdir_ok, audio, video) ==
    IF ~mkdir_ok
    THEN [rec |-> r, names |-> names, ret |-> RetRaise, raised |-> TRUE,
          outcome |-> "prep_raise", lostV |-> 0, lostA |-> 0]
    ELSE IF video_resolution = "bad"
    THEN [rec |-> [r EXCEPT !.current_file = generate_filename,
                            !.temp_video_file = generate_filename,
                            !.temp_audio_file = generate_filename],
          names |-> generate_filename, ret |-> RetRaise, raised |-> TRUE,
          outcome |-> "prep_raise", lostV |-> 0, lostA |-> 0]
    ELSE IF audio = "run" /\ video = "run"
    THEN [rec |-> [video_process |-> "running", audio_process |-> "running",
                   current_file |-> generate_filename,
                   temp_video_file |-> generate_filename,
                   temp_audio_file |-> generate_filename],
          names |-> generate_filename, ret |-> RetTrue, raised |-> FALSE,
          outcome |-> "started", lostV |-> 0, lostA |-> 0]
    ELSE LET a == Child(audio)
             v == IF audio = "raise" THEN "None" ELSE Child(video)
         IN [rec |-> NoSession, names |-> generate_filename, ret |-> RetFalse,
             raised |-> FALSE, outcome |-> "launch_failed",
             lostV |-> Dropped(Reap(v)), lostA |-> Dropped(Reap(a))]

\* mutant: no test for a session in progress
start_recording_av_unguarded(r, mkdir_ok, audio, video) ==
    start_session_av(r, mkdir_ok, audio, video)

start_recording_av(r, mkdir_ok, audio, video) ==
    IF r.video_process # "None" \/ r.audio_process # "None"
    THEN [rec |-> r, names |-> names, ret |-> RetFalse, raised |-> FALSE,
          outcome |-> "active", lostV |-> 0, lostA |-> 0]
    ELSE start_session_av(r, mkdir_ok, audio, video)

start_recording(r, mkdir_ok, audio, video) ==
    IF variant = "av"
    THEN start_recording_av(r, mkdir_ok, audio, video)
    ELSE [lostA |-> 0] @@ start_recording_cap(r, mkdir_ok, video)

InitApi == pc = "api" /\ InitCommon /\ InitService /\ host = GoodHost

ApiStart ==
    /\ pc = "api"
    /\ \E mkdir_ok \in BOOLEAN, audio \in Launches, video \in Launches :
         LET s == start_recording(recorder, mkdir_ok, audio, video)
         IN /\ recorder' = s.rec
            /\ names' = s.names
            /\ stray' = AddStray(s.lostV, s.lostA)
            /\ start_outcome' = s.outcome
            /\ start_ret' = s.ret
            \* a start that generated a file name also assigned new temporary paths
            /\ IF variant = "av" /\ s.names # names
               THEN NewSession
               ELSE UNCHANGED fsVars
    /\ UNCHANGED <<cfgVars, pixels, exitVars,
                   pc, exc, coordVars, running, handlers, now, presence,
                   leds, sig, callVars, stop_ret>>

ApiStop ==
    /\ pc = "api"
    /\ \E ok \in StopEnvs :
         LET s == stop_recording(recorder, ok)
         IN /\ recorder' = s.rec
            /\ stray' = AddStray(s.lostV, s.lostA)
            /\ stop_ret' = s.ret
            /\ tmp' = s.tmp
            /\ finals' = s.finals
            /\ stop_outcome' = s.outcome
    /\ UNCHANGED <<cfgVars, pixels, exitVars,
                   pc, exc, coordVars, running, handlers, now, presence,
                   names, leds, sig, callVars, start_outcome, start_ret>>

NextApi == ApiStart \/ ApiStop \/ ChildExit

SpecApi == InitApi /\ [][NextApi]_vars

----------------------------------------------------------------------------
(* detect_presence() applied to one frame, for every frame, threshold and minimum *)

\* cell temperatures around the default threshold, and the thresholds that put
\* them below, at and above it
Temps == (Defaults.temperature_threshold - 1) .. (Defaults.temperature_threshold + 1)
Thresholds == {Defaults.temperature_threshold, Defaults.temperature_threshold + 1}

\* what sensor.pixels can give: a grid of temperatures, or an exception
Frames ==
    {[ok |-> TRUE, rows |-> r] : r \in [1..Rows -> [1..RowLen -> Temps]]}
    \cup {SensorError}

InitSensor ==
    /\ pc = "sensor"
    /\ InitCommon
    /\ video_resolution = "WxH"
    /\ config_file = AbsentFile
    /\ config = load_config(config_file)
    /\ host = GoodHost
    /\ InitNoCli
    /\ temperature_threshold \in Thresholds
    /\ presence_pixels_required \in 0 .. (Rows * RowLen + 1)
    /\ pixels \in Frames

\* presence = self.ir_sensor.detect_presence()
ReadSensor ==
    /\ pc = "sensor"
    /\ presence' = detect_presence(pixels, temperature_threshold,
                                   presence_pixels_required)
    /\ pc' = "sensed"
    /\ UNCHANGED <<cfgVars, pixels, fsVars, exitVars, exc, coordVars, running,
                   handlers, now, recVars, leds, sig, callVars, retVars>>

NextSensor == ReadSensor

SpecSensor == InitSensor /\ [][NextSensor]_vars

----------------------------------------------------------------------------
(* Config() applied to one override file, for every file *)

InitConfig ==
    /\ pc = "config"
    /\ InitCommon
    /\ variant = "av"
    /\ video_resolution = "WxH"
    /\ config_file \in ConfigFiles
    /\ config = NoKeys
    /\ host = GoodHost
    /\ InitNoCli
    /\ temperature_threshold = Defaults.temperature_threshold
    /\ presence_pixels_required = Defaults.presence_pixels_required
    /\ pixels = NoFrame

\* config = Config(): load_config() sets the attributes, then creates capture_dir;
\* a mkdir that raises leaves the constructor for main(), which exits with status 1
LoadConfig ==
    /\ pc = "config"
    /\ config' = load_config(config_file)
    /\ \E raised \in mkdir_raises(capture_dir(config_file)) :
         IF ~raised
         THEN /\ pc' = "configured"
              /\ UNCHANGED <<exc, exit_status>>
         ELSE /\ exc' = "Config"
              /\ exit_status' = 1
              /\ pc' = "exit"
    /\ UNCHANGED <<variant, video_resolution, temperature_threshold,
                   presence_pixels_required, config_file, host, interrupted, cliVars, pixels,
                   fsVars,
                   nCleanup,
                   coordVars, running, handlers, now, presence, recVars, leds, sig,
                   callVars, retVars>>

NextConfig == LoadConfig

SpecConfig == InitConfig /\ [][NextConfig]_vars

----------------------------------------------------------------------------
(* test_components.py main(), for every condition of the device *)

InitCli ==
    /\ pc = "test_imports"
    /\ InitCommon
    /\ variant = "av"
    /\ video_resolution = "WxH"
    /\ config_file = AbsentFile
    /\ config = load_config(config_file)
    /\ host = GoodHost
    /\ temperature_threshold = Defaults.temperature_threshold
    /\ presence_pixels_required = Defaults.presence_pixels_required
    /\ pixels = NoFrame
    /\ bench \in Benches
    /\ results = <<>>
    /\ ran = <<>>

\* results[key] = test(): the test is called and its result stored
RunTest(at, key, result, next) ==
    /\ pc = at
    /\ ran' = Append(ran, key)
    /\ results' = results @@ (key :> result)
    /\ pc' = next
    /\ UNCHANGED <<variant, video_resolution, temperature_threshold,
                   presence_pixels_required, config_file, config, host, interrupted, bench,
                   pixels, fsVars, exitVars, exc, coordVars, running, handlers, now,
                   presence, recVars, leds, sig, callVars, retVars>>

TestImports == RunTest("test_imports", "dependencies", test_imports(bench), "test_ir_sensor")
TestIRSensor == RunTest("test_ir_sensor", "ir_sensor", test_ir_sensor(bench), "test_camera")
TestCamera == RunTest("test_camera", "camera", test_camera(bench), "test_audio")
TestAudio == RunTest("test_audio", "audio", test_audio(bench), "test_av")

\* if results['camera'] and results['audio']: the combined test; else it is skipped
\* and recorded as False
TestAV ==
    IF pc = "test_av" /\ results["camera"] /\ results["audio"]
    THEN RunTest("test_av", "av_recording", test_av_recording(bench), "summary")
    ELSE /\ pc = "test_av"
         /\ results' = results @@ ("av_recording" :> FALSE)
         /\ pc' = "summary"
         /\ UNCHANGED <<variant, video_resolution, temperature_threshold,
                        presence_pixels_required, config_file, config, host, interrupted, bench,
                        ran, pixels, fsVars, exitVars, exc, coordVars, running,
                        handlers, now, presence, recVars, leds, sig, callVars,
                        retVars>>

\* the summary, and sys.exit(main())
Summary ==
    /\ pc = "summary"
    /\ exit_status' = ExitCode(results)
    /\ pc' = "exit"
    /\ UNCHANGED <<cfgVars, pixels, fsVars, nCleanup, exc, coordVars, running,
                   handlers, now, presence, recVars, leds, sig, callVars, retVars>>

NextCli == TestImports \/ TestIRSensor \/ TestCamera \/ TestAudio \/ TestAV \/ Summary

SpecCli == InitCli /\ [][NextCli]_vars

----------------------------------------------------------------------------
(* Scheduling: the main thread keeps executing, and time keeps passing *)

MainThread ==
    \/ PreFlight
    \/ Construct
    \/ RunEntry \/ Loop \/ Sleep \/ DetectAV
    \/ Start0 \/ StartAudio \/ StartAudioStore \/ StartVideo \/ StartVideoStore
    \/ StartSettle \/ CfsAudio \/ CfsVideo
    \/ Stop0 \/ StopVideoWait \/ StopAudioWait \/ StopCheck \/ StopMerge
    \/ UpdateCap \/ LoopError \/ Finally

TimePasses == Sleep /\ (now' # now \/ absence_timer' # absence_timer)

FairSpec == Spec /\ WF_vars(MainThread) /\ SF_vars(TimePasses)

----------------------------------------------------------------------------
(* Properties *)

W == WAITING_TO_STOP

Edges == {<<IDLE, RECORDING>>, <<RECORDING, W>>, <<W, RECORDING>>, <<W, IDLE>>}

\* live capture processes of one kind: the one the handle refers to, and strays
Alive(kind, handle) == stray[kind] + (IF handle = "running" THEN 1 ELSE 0)

\* the poll loop calls stop_recording() in this step
StopCalled == nStop' > nStop

\* start_recording() reports success in this step
StartSucceeded ==
    start_outcome' = "started" /\ (start_outcome # "started" \/ names' # names)

\* one step of C1
C1_FullCycleStep ==
    /\ state' # state => <<state, state'>> \in Edges
    /\ StartSucceeded => (state = IDLE /\ state' = RECORDING)
    /\ (state = IDLE /\ state' = RECORDING) =>
          (presence' /\ nStart' = 1 /\ nStop' = 0)
    /\ (state = RECORDING /\ state' = W) =>
          (~presence' /\ nStart' = 1 /\ nStop' = 0)
    /\ (state = W /\ state' = IDLE) =>
          /\ ~presence'
          /\ nStart' = 1
          /\ nStop' = 1
          /\ absence_timer # None
          /\ now - absence_timer >= stop_delay_seconds
          /\ absence_timer' = None
\* C1: a cycle runs Idle -> Recording -> WaitingToStop -> Idle and nowhere else; a
\* successful start_recording() takes the coordinator from Idle to Recording, on a
\* presence reading and as the one start call of the cycle; it returns to Idle on an absence reading
\* once stop_delay_seconds have elapsed, with exactly one start and one stop call
\* made in the cycle and the absence timer cleared.
C1_FullCycle == [][C1_FullCycleStep]_vars
C1_CycleDone ==
    /\ state = IDLE /\ pc = "sleep" /\ ~sig
    /\ nStart = 1 /\ nStop = 1 /\ ~cancelled /\ absence_timer = None

\* one step of C2
C2_CancelStep ==
    /\ (state = W /\ state' = RECORDING) =>
          /\ presence'
          /\ absence_timer' = None
          /\ nStop' = nStop
          /\ recorder' = recorder
          /\ stray' = stray
          /\ stop_ret' = stop_ret
    /\ (state = RECORDING /\ state' = W) => absence_timer' = now'
    /\ StopCalled => (lossTime # None /\ now - lossTime >= stop_delay_seconds)
\* C2: presence read in WaitingToStop returns the coordinator to Recording, clears
\* the absence timer and neither calls stop_recording() nor touches the recorder;
\* every loss of presence starts the countdown at the time of its own tick, and the
\* poll loop stops only stop_delay_seconds after the most recent loss.
C2_CooldownCancel == [][C2_CancelStep]_vars
C2_StoppedAfterCancel ==
    state = IDLE /\ pc = "sleep" /\ cancelled /\ nStart = 1 /\ nStop = 1

\* one step of C3
C3_StopStep ==
    /\ StopCalled =>
          /\ pc = "detect"
          /\ state = W
          /\ ~presence'
          /\ absence_timer # None
          /\ absence_timer = lossTime
          /\ now - absence_timer >= stop_delay_seconds
    /\ ( /\ pc = "detect" /\ pc' # "detect" /\ sig' = sig
         /\ state = W /\ ~presence'
         /\ ~(absence_timer # None /\ now - absence_timer >= stop_delay_seconds) ) =>
          /\ state' = W
          /\ absence_timer' = absence_timer
          /\ recorder' = recorder
          /\ nStop' = nStop
          /\ pc' = "sleep"
\* C3: the poll loop calls stop_recording() only on a tick in WaitingToStop that
\* reads absence, with the absence timer set at the last Recording -> WaitingToStop
\* tick and at least stop_delay_seconds old; a tick in WaitingToStop that reads
\* absence earlier than that leaves state, timer and recorder as they are.
C3_StopOnlyAfterDelay == [][C3_StopStep]_vars
C3_StopDue == pc = "stop_0" /\ nStop = 1 /\ absence_timer = lossTime

\* C4: while the poll loop keeps running, a recording whose last tick read absence
\* is eventually stopped by the poll loop with the coordinator back in Idle, unless
\* a later tick reads presence.
C4_EventuallyStopped ==
    (state # IDLE /\ ~presence) ~>
        ((state = IDLE /\ nStop = 1) \/ presence \/ pc = "done")
C4_StoppedByCooldown ==
    state = IDLE /\ pc = "loop" /\ nStop = 1 /\ ~presence /\ ~sig /\ exc = "none"

\* C5: after a start that failed because the capture tool is missing or exited at
\* once, the coordinator is Idle and the poll loop is still running.
C5_FailedStartStaysIdle ==
    (start_outcome = "launch_failed" /\ ~sig) =>
        (state = IDLE /\ exc = "none" /\ pc \notin {"finally", "done"})

\* C6: no exception leaves start_recording() or stop_recording() for the coordinator.
C6_StartStopNeverRaise == exc \notin {"start_recording", "stop_recording"}

\* C7: once shutdown processing has completed after a shutdown signal, is_recording()
\* is false and both indicator lines are off, whatever state the coordinator is in.
C7_ShutdownSafety ==
    (pc = "done" /\ sig) => (~is_recording(recorder) /\ ~leds.orange /\ ~leds.red)
C7_ShutdownWhileWaiting ==
    /\ pc = "done" /\ sig /\ variant = "av"
    /\ state = W /\ names = 1 /\ stop_ret # RetNone

\* C8: a shutdown signal delivered to an installed handler eventually ends the run.
C8_ShutdownNotLost == sig ~> (pc = "done")

\* C9: at most one video-bearing and at most one audio capture process started by
\* the recorder is alive.
C9_OneSession ==
    /\ Alive("video", recorder.video_process) <= 1
    /\ Alive("audio", recorder.audio_process) <= 1
C9_SecondSession ==
    /\ variant = "av" /\ names = 2
    /\ recorder.video_process = "running" /\ recorder.audio_process = "running"

\* one step of C10
C10_StartStep ==
    (ApiStart /\ is_recording(recorder)) =>
        /\ recorder' = recorder
        /\ stray' = stray
        /\ names' = names
        /\ start_outcome' = "active"
        /\ start_ret' = (IF variant = "av" THEN RetFalse
                                           ELSE RetFile(recorder.current_file))
\* C10: start_recording() called while is_recording() is true launches nothing,
\* leaves handles, paths and the name sequence as they are, and returns False
\* (av_monitor) or the name of the session in progress (capture_monitor).
C10_StartWhileActiveNoOp == [][C10_StartStep]_vars
C10_StartedWhileActive ==
    pc = "api" /\ start_outcome = "active" /\ is_recording(recorder)

\* stop_recording() finds no session: both handles None (av_monitor), is_recording()
\* false (capture_monitor)
NoSessionActive(r) ==
    IF variant = "av" THEN r.video_process = "None" /\ r.audio_process = "None"
    ELSE ~is_recording(r)

\* a session was started and not stopped: the recorder holds a process handle
SessionStarted(r) == r.video_process # "None" \/ r.audio_process # "None"

\* one step of C11
C11_StopStep ==
    (ApiStop /\ NoSessionActive(recorder)) =>
        /\ recorder' = recorder
        /\ stray' = stray
        /\ tmp' = tmp
        /\ finals' = finals
        /\ stop_outcome'.path = "noop"
        /\ stop_ret' = (IF variant = "av" THEN RetFalse ELSE RetNone)
\* C11: stop_recording() called while no session is active signals no process, runs
\* no merge, touches no file and leaves every recorder field as it is; it returns
\* False (av_monitor) or nothing (capture_monitor).
C11_StopWithoutSessionNoOp == [][C11_StopStep]_vars
C11_StoppedWithoutSession ==
    pc = "api" /\ stop_outcome.path = "noop" /\ names = 1 /\ recorder = NoSession

\* one step of C12
C12_StopStep ==
    (ApiStop /\ SessionStarted(recorder)) => recorder' = NoSession
\* C12: after stop_recording() returns for a session that was started, whatever path
\* it took, every process handle and session path of the recorder is cleared.
C12_StopClearsSession == [][C12_StopStep]_vars

\* stop_recording() of av_monitor runs in this step of the recorder with both
\* temporary files in place and a merge tool that succeeds
MergeSucceeds ==
    /\ ApiStop /\ variant = "av" /\ SessionStarted(recorder)
    /\ stop_outcome'.env.video_exists
    /\ stop_outcome'.env.audio_exists
    /\ stop_outcome'.env.merge_success

\* one step of C13 as it was stated
C13_MergeStepStated ==
    MergeSucceeds =>
        /\ stop_ret' = RetTrue
        /\ finals' = {recorder.current_file}
        /\ tmp' = NoTmp
\* the statement of C13 before its correction: success is returned, the one output
\* file is at the generated path and both temporary files are gone
C13_MergeAlwaysClean == [][C13_MergeStepStated]_vars

\* one step of C13
C13_MergeStep ==
    MergeSucceeds =>
        /\ finals' = {recorder.current_file}
        /\ recorder' = NoSession
        /\ stop_outcome'.env.stat_ok => stop_ret' = RetTrue
        /\ stop_outcome'.env.unlinked = "both" => tmp' = NoTmp
        /\ stop_outcome'.env.unlinked = "video" => tmp' = [video |-> FALSE, audio |-> TRUE]
\* C13: when both temporary files exist after the capture processes stop and the
\* merge tool succeeds, the one output file of the session is at the path
\* generate_filename() produced at start; stop_recording() returns True if the file
\* can be stat'ed; the temporary files are gone if deleting them did not fail, and a
\* failed deletion leaves the file it failed on and the one after it.
C13_MergeProducesFinal == [][C13_MergeStep]_vars
C13_MergedAndCleaned ==
    /\ pc = "api" /\ variant = "av" /\ stop_outcome.path = "merged"
    /\ stop_ret = RetTrue /\ finals = {names} /\ tmp = NoTmp /\ recorder = NoSession

\* stop_recording() of av_monitor goes past its no-session test in this step
StopRan == stop_outcome' # stop_outcome /\ stop_outcome'.path \notin {"none", "noop"}

\* one step of C14
C14_MissingStep ==
    ( /\ variant = "av" /\ StopRan
      /\ ~(stop_outcome'.env.video_exists /\ stop_outcome'.env.audio_exists) ) =>
        /\ stop_outcome'.path = "missing"
        /\ stop_ret' = RetFalse
        /\ finals' = {}
        /\ recorder' = NoSession
        /\ pc = "stop_check" => (state' = IDLE /\ absence_timer' = None /\ pc' = "sleep")
\* C14: if a temporary file is absent once the capture processes are down, the merge
\* tool is not run, stop_recording() returns False, nothing is at the output path,
\* the session is cleared, and the poll loop goes on to Idle.
C14_MissingFileSkipsMerge == [][C14_MissingStep]_vars
C14_IdleAfterMissingFile ==
    /\ variant = "av" /\ state = IDLE /\ pc = "sleep" /\ ~sig /\ nStop = 1
    /\ stop_outcome.path = "missing" /\ stop_ret = RetFalse /\ finals = {}

\* the cells of the frame last read that are at or above the threshold
HotCells ==
    {c \in (1..Rows) \X (1..RowLen) : pixels.rows[c[1]][c[2]] >= temperature_threshold}

\* C15: detect_presence() returns true exactly if the number of cells of the frame
\* whose value is >= the threshold is >= the minimum pixel count.
C15_PresenceIffEnoughHotCells ==
    (pc = "sensed" /\ pixels.ok) =>
        (presence <=> Cardinality(HotCells) >= presence_pixels_required)
C15_PresenceAtBothBoundaries ==
    /\ pc = "sensed" /\ presence
    /\ pixels = UniformFrame(temperature_threshold)
    /\ presence_pixels_required = Rows * RowLen

\* the poll loop evaluates a tick whose sensor read raised
ErrorTick == pc = "detect" /\ pc' # "detect" /\ sig' = sig /\ ~pixels'.ok

\* one step of C16
C16_ErrorTickStep ==
    ErrorTick =>
        /\ ~presence'
        /\ exc' = exc
        /\ pc' \in {"sleep", "stop_0"}
        /\ nStart' = nStart
        /\ state = IDLE => (state' = IDLE /\ recorder' = recorder /\ pc' = "sleep")
        /\ state = RECORDING =>
              (state' = W /\ absence_timer' = now /\ nStop' = nStop /\ pc' = "sleep")
        /\ (state = W /\ now - absence_timer >= stop_delay_seconds) => nStop' = 1
        /\ (state = W /\ now - absence_timer < stop_delay_seconds) =>
              (state' = W /\ absence_timer' = absence_timer /\ nStop' = nStop)
\* C16: a sensor read error does not leave detect_presence(): the reading is false,
\* no exception reaches the poll loop, which goes on, and the tick does what an
\* absence tick does: Idle stays Idle with no start, Recording enters WaitingToStop,
\* WaitingToStop stops if the delay has elapsed and waits otherwise.
C16_SensorErrorIsAbsence == [][C16_ErrorTickStep]_vars
C16_WaitingAfterSensorError ==
    /\ ~pixels.ok /\ ~presence /\ state = W /\ pc = "sleep"
    /\ absence_timer = now /\ exc = "none" /\ ~sig

\* C17: a sensor that fails to initialise is fatal.  The error reaches main(), which
\* exits with a non-zero status; run() is never entered, so no tick is evaluated, no
\* frame is read, and no recording is started.
C17_SensorInitFailureFatal ==
    exc = "IRSensor" =>
        /\ pc = "exit"
        /\ exit_status # None /\ exit_status # 0
        /\ state = IDLE /\ pixels = NoFrame /\ now = 0
        /\ nStart = 0 /\ names = 0 /\ recorder = NoSession
        /\ stray.video = 0 /\ stray.audio = 0
C17_ExitedOnSensorFailure == pc = "exit" /\ exc = "IRSensor" /\ exit_status = 1

\* the service process has ended
Terminated == pc \in {"done", "exit"}

\* C18: on every shutdown path of the service (a signal, an error in the poll loop, a
\* fatal failure of the start after the indicator was constructed) cleanup() has been
\* called exactly once when the process ends, and both indicator lines are off.
C18_CleanupExactlyOnce ==
    (variant = "av" /\ Terminated) => (nCleanup = 1 /\ ~leds.orange /\ ~leds.red)

\* the main thread of av_monitor.py is between two evaluations of the poll loop, or
\* between the constructor and the loop, and cleanup() has not been called
TickBoundary == variant = "av" /\ pc \in {"run", "loop", "detect", "sleep"} /\ nCleanup = 0

C21_FileNeverFailsStartup ==
    exc = "Config" => capture_dir(config_file) = "home"

\* the loop was left by an exception raised in its body
LoopFailed == exc \in {"loop_body", "start_recording"}

\* the process has ended with nothing recording and the indicator released
CleanedUp ==
    /\ pc = "done"
    /\ ~is_recording(recorder)
    /\ variant = "av" => (~leds.orange /\ ~leds.red /\ nCleanup >= 1)

\* C22: an exception raised in the body of the poll loop, in whatever state the
\* coordinator is, ends the loop through the cleanup of a normal shutdown: an
\* active recording is stopped, the indicator is released, the process terminates.
C22_LoopErrorCleansUp == LoopFailed ~> CleanedUp
C22_StoppedAfterLoopError ==
    /\ pc = "done" /\ exc = "loop_body" /\ state = W
    /\ stop_outcome.path \notin {"none", "noop"}
    /\ recorder = NoSession

\* C23: when the capture directory is not writable or rpicam-vid cannot be run,
\* capture_monitor.py exits with a non-zero status before the sensor is initialised,
\* before the signal handlers are installed and before any recording logic runs.
C23_PreFlightFirst ==
    (variant = "cap" /\ ~(host.capture_dir_writable /\ host.rpicam_vid)) =>
        /\ pc \in {"main", "exit"}
        /\ pc = "exit" => (exit_status # None /\ exit_status # 0)
        /\ exc = "none" /\ ~handlers /\ ~running
        /\ pixels = NoFrame /\ state = IDLE /\ now = 0
        /\ nStart = 0 /\ names = 0 /\ recorder = NoSession
C23_ExitedOnMissingTool ==
    /\ variant = "cap" /\ host.capture_dir_writable /\ ~host.rpicam_vid
    /\ pc = "exit" /\ exit_status = 1

\* the combined-capture test was called
RanAV == \E i \in 1..Len(ran) : ran[i] = "av_recording"

\* C24: the diagnostic script calls its tests in the order imports, sensor, camera,
\* audio, combined capture; the combined test is called only if the camera and the
\* audio test passed, and is recorded as failed otherwise; the exit code is 0 iff
\* all five results are success, and 1 otherwise.
C24_DiagnosticOrderAndExit ==
    /\ \A i \in 1..Len(ran) : ran[i] = Tests[i]
    /\ DOMAIN results = {Tests[i] : i \in 1..Len(ran)}
                          \cup (IF pc \in {"summary", "exit"} THEN {"av_recording"} ELSE {})
    /\ pc \in {"summary", "exit"} =>
          /\ Len(ran) >= 4
          /\ RanAV <=> (results["camera"] /\ results["audio"])
          /\ ~RanAV => ~results["av_recording"]
    /\ pc = "exit" =>
          /\ exit_status \in {0, 1}
          /\ exit_status = 0 <=> \A i \in 1..Len(Tests) : results[Tests[i]]
C24_SkippedCombinedTest ==
    /\ pc = "exit" /\ exit_status = 1 /\ ~RanAV
    /\ results["dependencies"] /\ results["ir_sensor"] /\ results["camera"]
    /\ ~results["audio"] /\ ~results["av_recording"] /\ bench.av

\* the main thread is between two evaluations of the poll loop
PollBoundary == pc \in {"loop", "detect", "sleep"}

C25_TimerState ==
    /\ pc \in {"main", "monitor", "run"} => (state = IDLE /\ absence_timer = None)
    /\ PollBoundary => (absence_timer # None <=> state = W)
C25_LeaveStep ==
    (state = W /\ state' # W) => (state' \in {RECORDING, IDLE} /\ absence_timer' = None)
\* C25: the coordinator starts Idle with no absence timer; at every boundary between
\* two ticks the timer holds a timestamp iff the state is WaitingToStop; it is
\* cleared on both ways out of WaitingToStop, back to Recording and on to Idle.
C25_AbsenceTimerInvariant == []C25_TimerState /\ [][C25_LeaveStep]_vars
C25_TimerClearedBothWays ==
    /\ PollBoundary /\ state = IDLE /\ absence_timer = None
    /\ cancelled /\ nStop = 1 /\ stop_ret # RetNone

\* one step of C26: StopRan is the return of a stop_recording() that went past its
\* guard
C26_StopStep ==
    StopRan =>
        /\ recorder'.video_process # "running"
        /\ recorder'.audio_process # "running"
        /\ stray' = stray
\* C26: when stop_recording() returns for an active session, every capture process
\* of the session has exited, whether it obeyed the signal it was sent or had to be
\* killed: no handle refers to a running process and none was dropped while running.
C26_StopReapsProcesses == [][C26_StopStep]_vars
C26_StoppedRunningSession ==
    /\ stop_outcome.path \notin {"none", "noop"}
    /\ recorder = NoSession /\ stray.video = 0 /\ stray.audio = 0
    /\ state = IDLE /\ pc = "sleep" /\ nStop = 1

\* start_recording() returned a success indicator: True, or a file name
StartReportedSuccess == start_ret' = RetTrue \/ start_ret'[1] = "file"

\* one step of C27: a start_recording() that got as far as launching
C27_StartStep ==
    (ApiStart /\ start_outcome' \in {"started", "launch_failed"}) =>
        /\ start_outcome' = "launch_failed" =>
              /\ start_ret' \in {RetFalse, RetRaise}
              /\ recorder' = NoSession
              /\ stray' = stray
        /\ StartReportedSuccess =>
              /\ start_outcome' = "started"
              /\ \A h \in {recorder'.video_process, recorder'.audio_process} :
                    h \in {"None", "running"}
\* C27: after launching, start_recording() waits and checks each process: if one has
\* exited (or could not be launched) the start is reported as failed, no process of
\* the session is left running, and handles and paths are cleared; success is
\* reported only if every launched process is running at the check.
C27_StartVerified == [][C27_StartStep]_vars

C28_Order ==
    /\ pc \in {"start_audio", "start_audio_store"} => recorder.video_process = "None"
    /\ pc \in {"start_video", "start_video_store", "start_settle"} =>
          recorder.audio_process # "None"
    /\ pc \in {"stop_audio_wait", "stop_check", "stop_merge"} =>
          recorder.video_process # "running"
C28_VideoStopStep ==
    (pc = "stop_video_wait" /\ pc' = "stop_audio_wait") =>
        recorder'.audio_process = recorder.audio_process
\* C28: in a session of the dual-process recorder the audio process is launched, and
\* its handle stored, before the video process is launched; on stop the video
\* process is signalled and awaited, killed if need be, before the audio process is
\* signalled.
C28_AudioFirstVideoFirst == []C28_Order /\ [][C28_VideoStopStep]_vars
C28_VideoStoppedAudioRunning ==
    /\ variant = "av" /\ pc = "stop_audio_wait"
    /\ recorder.video_process = "exited" /\ recorder.audio_process = "running"

\* C29: every capture process is launched so that it ignores the interactive
\* interrupt: an interrupt sent to the service and its process group never ends a
\* capture process; only the stop sequence of the recorder does.
C29_InterruptShielded == ~interrupted

\* C30: at every boundary between two ticks at which the coordinator is Idle, no
\* capture process the recorder started is alive and the recorder holds no process
\* handle, whatever ticks, starts and stops went before.
C30_IdleMeansNothingRecording ==
    (PollBoundary /\ state = IDLE) =>
        /\ recorder.video_process = "None" /\ recorder.audio_process = "None"
        /\ Alive("video", recorder.video_process) = 0
        /\ Alive("audio", recorder.audio_process) = 0

\* C31: at every boundary between two ticks at which the coordinator is in Recording
\* or WaitingToStop, is_recording() is true: a capture process of the session is
\* running, even though a capture process can exit on its own at any time.
C31_RecordingMeansCapturing ==
    (PollBoundary /\ state \in {RECORDING, W}) => is_recording(recorder)

\* C32: once the service has processed a shutdown signal and exited, no capture
\* process it launched is running, wherever the signal arrived, also in
\* start_recording() between the launch of a child and the storing of its handle.
C32_NoOrphanAfterShutdown ==
    (pc = "done" /\ sig) =>
        /\ Alive("video", recorder.video_process) = 0
        /\ Alive("audio", recorder.audio_process) = 0

\* the poll loop is inside stop_recording(), past its guard: awaiting the video
\* process, awaiting the audio process, checking the files, merging
InStop == pc \in {"stop_video_wait", "stop_audio_wait", "stop_check", "stop_merge"}

\* one step of C33: the stop sequence under way goes on or returns to the loop, and
\* no other stop sequence runs for the session meanwhile
C33_StopStep ==
    InStop =>
        /\ pc' \in {"stop_video_wait", "stop_audio_wait", "stop_check", "stop_merge",
                     "sleep"}
        /\ StopRan => pc' = "sleep"
\* C33: for each session the stop sequence is begun at most once and, once begun,
\* runs to completion, also when a shutdown signal arrives while the poll loop is
\* inside stop_recording(), awaiting a capture process or merging.
C33_SingleStopPerSession == [][C33_StopStep]_vars

====
